---------------------------- MODULE Spec2Model ----------------------------
(***************************************************************************)
(* Model of the chat / deep-research commands of src-tauri/src/main.rs:    *)
(* send_chat_message, trigger_deep_research, save_api_key / get_api_key,   *)
(* and of its overlay and device-listener commands.                        *)
(* The message store (db.rs) is not part of the sources at hand; it is     *)
(* modelled as the append-only log the specification describes.            *)
(***************************************************************************)
EXTENDS Integers, Sequences, FiniteSets, TLC

VARIABLES
    store,      \* chat_history table: sequence of [role, content, level]
    cooldown,   \* contents of the cooldown file (or its absence)
    now,        \* SystemTime::now() in seconds since the epoch
    apiKey,     \* contents of the api key file (or its absence)
    prompts,    \* the saved prompt files, by name
    tasks,      \* one record per running / finished command invocation
    overlay,    \* AppState, the overlay window and the tray menu item
    listening   \* IS_LISTENING, the listener threads, the calls in flight

vars == <<store, cooldown, now, apiKey, prompts, tasks, overlay, listening>>

\* the state of the chat commands and the state of the shell
chat == <<store, cooldown, now, apiKey, prompts, tasks>>
shell == <<overlay, listening>>

----------------------------------------------------------------------------
(* Bounds *)

MaxStore == 3          \* no new command starts once the store holds this many turns
MaxNow == 21600        \* the clock is not advanced past this value

(* Inputs *)

LevelInputs == {0, 1, 2}           \* context_level
UserMsgs == {"hi"}
Replies == {"ok"}
TickSteps == {21599, 21600}          \* one second short of six hours, and six hours
Stamps == {0, 21600, 43201}   \* numbers a hand-edited cooldown file may hold

Seq1 == {1}
Seq2 == {1, 2}

----------------------------------------------------------------------------
(* Prompt files, main.rs 221-351 *)

\* the prompt files send_chat_message and trigger_deep_research read
PromptFiles == {"system", "dialogue", "deep"}

\* a prompt file: absent, or holding a text (a sequence of characters)
NoPrompt == [exists |-> FALSE, text |-> <<>>]
PromptFile(text) == [exists |-> TRUE, text |-> text]

\* prompts.rs 4, 10, 28 (the texts of the long defaults are cut after their
\* first clause)
DEFAULT_SYSTEM_PROMPT ==
    "You are a helpful AI assistant. You can see the user's screen via screenshots. Be concise and helpful."
DEFAULT_DIALOGUE_PROMPT == "You are Miku - a warm, curious, and gently playful companion"
DEFAULT_DEEP_RESEARCH_PROMPT == "You are Miku in a reflective, thoughtful mode"

IsSpace(c) == c \in {" ", "\n", "\t"}

\* str::trim: leading and trailing white space removed
RECURSIVE TrimStart(_)
TrimStart(text) ==
    IF text # <<>> /\ IsSpace(Head(text)) THEN TrimStart(Tail(text)) ELSE text

RECURSIVE TrimEnd(_)
TrimEnd(text) ==
    IF text # <<>> /\ IsSpace(text[Len(text)])
    THEN TrimEnd(SubSeq(text, 1, Len(text) - 1))
    ELSE text

Trim(text) == TrimEnd(TrimStart(text))

\* the characters of a text as one string
RECURSIVE Str(_)
Str(text) == IF text = <<>> THEN "" ELSE Head(text) \o Str(Tail(text))

\* a getter that returns the file as it is
GetPrompt_NoTrim(file, default) ==
    IF file.exists /\ file.text # <<>> THEN Str(file.text) ELSE default

\* main.rs 240-251, 306-317, 339-350: the body shared by the getters
GetPrompt(file, default) ==
    IF file.exists
    THEN LET trimmed == Trim(file.text)
         IN  IF trimmed = <<>> THEN default ELSE Str(trimmed)
    ELSE default

\* main.rs 236-252
get_system_prompt == GetPrompt(prompts["system"], DEFAULT_SYSTEM_PROMPT)

\* main.rs 335-351
get_dialogue_prompt == GetPrompt(prompts["dialogue"], DEFAULT_DIALOGUE_PROMPT)

\* main.rs 302-318
get_deep_research_prompt == GetPrompt(prompts["deep"], DEFAULT_DEEP_RESEARCH_PROMPT)

\* main.rs 431-445: the instruction of the level
SystemPrompt(context_level) ==
    CASE context_level = 1 -> get_dialogue_prompt
      [] context_level = 2 -> get_deep_research_prompt
      [] OTHER -> get_system_prompt

\* main.rs 222-234, 288-300, 321-333: save_system_prompt,
\* save_deep_research_prompt and save_dialogue_prompt write the text as given
SavePrompt(f, text) ==
    /\ prompts[f] # PromptFile(text)
    /\ prompts' = [prompts EXCEPT ![f] = PromptFile(text)]
    /\ UNCHANGED <<store, cooldown, now, apiKey, tasks, overlay, listening>>

save_system_prompt(prompt) == SavePrompt("system", prompt)
save_dialogue_prompt(prompt) == SavePrompt("dialogue", prompt)
save_deep_research_prompt(prompt) == SavePrompt("deep", prompt)

----------------------------------------------------------------------------
(* Pure functions of send_chat_message *)

\* IncludeMsg without the arm of level 2
IncludeMsg_NoLevel2Arm(context_level, msg) ==
    CASE context_level = 1 ->
            msg.role = "user" \/ msg.role = "miku" \/ msg.role = "assistant"
      [] OTHER ->
            msg.role # "deep-thought"

\* IncludeMsg with a level-1 arm that drops nothing
IncludeMsg_Level1TakesAll(context_level, msg) ==
    CASE context_level = 1 -> TRUE
      [] context_level = 2 ->
            msg.role = "user" \/ msg.role = "deep-thought"
      [] OTHER ->
            msg.role # "deep-thought"

\* main.rs 468-481: which stored turns enter the context at a level
IncludeMsg(context_level, msg) ==
    CASE context_level = 1 ->
            msg.role = "user" \/ msg.role = "miku" \/ msg.role = "assistant"
      [] context_level = 2 ->
            msg.role = "user" \/ msg.role = "deep-thought"
      [] OTHER ->
            msg.role # "deep-thought"

\* an entry of a request: role and content as sent, whether an image part is
\* attached, and the stored turn the entry was made from (none for the system
\* entry and the current input)
Entry(role, content, image, src) ==
    [role |-> role, content |-> content, image |-> image, src |-> src]

NoTurn == [role |-> "", level |-> -1]
Turn(msg) == [role |-> msg.role, level |-> msg.level]

\* Relabel without the arm of lines 498-503
Relabel_NoAssistantTag(context_level, msg) ==
    IF msg.role = "miku"
    THEN IF context_level = 1
         THEN Entry("assistant", "[Miku's Inner Thoughts]: " \o msg.content, FALSE, Turn(msg))
         ELSE Entry("assistant", "[Miku]: " \o msg.content, FALSE, Turn(msg))
    ELSE IF msg.role = "deep-thought"
    THEN Entry("assistant", "[Analysis]: " \o msg.content, FALSE, Turn(msg))
    ELSE Entry(msg.role, msg.content, FALSE, Turn(msg))

\* main.rs 489-513: relabelling of an included turn
Relabel(context_level, msg) ==
    IF msg.role = "miku"
    THEN IF context_level = 1
         THEN Entry("assistant", "[Miku's Inner Thoughts]: " \o msg.content, FALSE, Turn(msg))
         ELSE Entry("assistant", "[Miku]: " \o msg.content, FALSE, Turn(msg))
    ELSE IF msg.role = "assistant" /\ context_level = 1
    THEN Entry("assistant", "[AI Assistant Response]: " \o msg.content, FALSE, Turn(msg))
    ELSE IF msg.role = "deep-thought"
    THEN Entry("assistant", "[Analysis]: " \o msg.content, FALSE, Turn(msg))
    ELSE Entry(msg.role, msg.content, FALSE, Turn(msg))

\* db.rs store_chat_message: the turn is appended to the log
store_chat_message(log, role, content, level) ==
    Append(log, [role |-> role, content |-> content, level |-> level])

\* db.rs get_chat_history_internal(limit): the `limit` most recent turns, oldest first
get_chat_history_internal(limit) ==
    IF Len(store) <= limit THEN store
    ELSE SubSeq(store, Len(store) - limit + 1, Len(store))

\* the history turns that pass the filter, in store order (loop of main.rs 467-485)
FilterHistory(context_level, history) ==
    SelectSeq(history, LAMBDA m : IncludeMsg(context_level, m))

\* BuildMessages pushing the history newest first
BuildMessages_NewestFirst(context_level, history, message, shot) ==
    LET kept == FilterHistory(context_level, history)
    IN  <<Entry("system", SystemPrompt(context_level), FALSE, NoTurn)>>
        \o [i \in 1..Len(kept) |-> Relabel(context_level, kept[Len(kept) + 1 - i])]
        \o <<Entry("user", message, shot, NoTurn)>>

\* main.rs 461-538: the message list of the primary request
BuildMessages(context_level, history, message, shot) ==
    LET kept == FilterHistory(context_level, history)
    IN  <<Entry("system", SystemPrompt(context_level), FALSE, NoTurn)>>
        \o [i \in 1..Len(kept) |-> Relabel(context_level, kept[i])]
        \o <<Entry("user", message, shot, NoTurn)>>

\* AnswerRole storing every answer as the assistant's
AnswerRole_AlwaysAssistant(context_level) == "assistant"

\* main.rs 574-587: the role under which the primary answer is stored
AnswerRole(context_level) ==
    CASE context_level = 1 -> "miku"
      [] context_level = 2 -> "deep-thought"
      [] OTHER -> "assistant"

\* main.rs 577, 582, 587: the level stored with the primary answer
AnswerLevel(context_level) ==
    CASE context_level = 1 -> 1
      [] context_level = 2 -> 2
      [] OTHER -> 0


\* main.rs 688-692: "[role]: content" of every turn, joined by blank lines
RECURSIVE Transcript(_)
Transcript(history) ==
    IF history = <<>> THEN ""
    ELSE LET line == "[" \o Head(history).role \o "]: " \o Head(history).content
         IN  IF Len(history) = 1 THEN line
             ELSE line \o "\n\n" \o Transcript(Tail(history))

\* main.rs 699-705: the two entries of the deep-research request
ResearchMessages(history) ==
    <<Entry("system", get_deep_research_prompt, FALSE, NoTurn),
      Entry("user", "Analyze this conversation history:\n\n" \o Transcript(history),
            FALSE, NoTurn)>>

\* main.rs 458 and 686: the history windows of the two commands
ChatWindow == 10
ResearchWindow == 50

----------------------------------------------------------------------------
(* Cooldown gate of trigger_deep_research *)

\* main.rs 661
six_hours == 6 * 60 * 60

NoFile == [kind |-> "absent", val |-> 0]
NumFile(n) == [kind |-> "num", val |-> n]       \* text that parses as u64
TextFile == [kind |-> "text", val |-> 0]        \* text that does not parse as u64

Outcome(k, r) == [kind |-> k, remaining |-> r]

\* CooldownCheck failing closed on a file that does not parse
CooldownCheck_FailsClosed(n, file) ==
    IF file.kind = "num"
    THEN IF file.val > n
         THEN {Outcome("panic", 0), Outcome("open", 0)}
         ELSE IF n - file.val < 21600
              THEN {Outcome("blocked", 21600 - (n - file.val))}
              ELSE {Outcome("open", 0)}
    ELSE IF file.kind = "text" THEN {Outcome("blocked", 21600)}
    ELSE {Outcome("open", 0)}

\* CooldownCheck reporting the elapsed time as the remaining time
CooldownCheck_ReportsElapsed(n, file) ==
    IF file.kind = "num"
    THEN IF file.val > n
         THEN {Outcome("panic", 0), Outcome("open", 0)}
         ELSE IF n - file.val < 21600
              THEN {Outcome("blocked", n - file.val)}
              ELSE {Outcome("open", 0)}
    ELSE {Outcome("open", 0)}

\* a check whose remaining time counts up
CooldownCheck_RemainingGrows(n, file) ==
    IF file.kind = "num"
    THEN IF file.val > n
         THEN {Outcome("panic", 0), Outcome("open", 0)}
         ELSE IF n - file.val < 21600
              THEN {Outcome("blocked", 1 + (n - file.val))}
              ELSE {Outcome("open", 0)}
    ELSE {Outcome("open", 0)}

\* main.rs 668-681, for a file that was read: the possible outcomes of the
\* check.  `now - last_time` is a u64 subtraction: when last_time > now it
\* panics (overflow checks on) or wraps to 2^64 - (last_time - now), which
\* is not below six_hours for any value of the model, so the check falls
\* through.
CooldownCheck(n, file) ==
    IF file.kind = "num"
    THEN IF file.val > n
         THEN {Outcome("panic", 0), Outcome("open", 0)}
         ELSE IF n - file.val < six_hours
              THEN {Outcome("blocked", six_hours - (n - file.val))}
              ELSE {Outcome("open", 0)}
    ELSE {Outcome("open", 0)}

----------------------------------------------------------------------------
(* Command invocations *)

\* lengths of the logs a long-running installation is started with
LongLogs == {12, 52}

\* a command is started while the store is short, or holds one of the long logs
MayStart == Len(store) < MaxStore \/ Len(store) \in LongLogs

\* main.rs 1136-1140, 1711-1720: AppState::default() and the tray item as
\* setup creates it; the overlay window exists.  `returned` is what the last
\* toggle_overlay returned and `previous` what the toggle_overlay right
\* before it returned ("none": the last command was another one)
OverlayAtSetup ==
    [overlay_visible |-> FALSE, toggle_text |-> "Show Character", window |-> TRUE,
     returned |-> "none", previous |-> "none"]

\* main.rs 1361: IS_LISTENING is false, no listener thread, no call in flight
NotListening ==
    [IS_LISTENING |-> FALSE, spawned |-> 0, pc |-> [t \in Seq2 |-> "idle"]]

IdleTask ==
    [pc |-> "idle", op |-> "none", result |-> "none",
     message |-> "", shot |-> FALSE, level |-> 0,
     messages |-> <<>>, main_response |-> "",
     comments |-> <<>>, remaining |-> 0, now |-> 0,
     \* what happened during the invocation
     reqs |-> 0,            \* completion requests sent
     gate |-> "none",       \* outcome of the cooldown check ("unread": the file could not be read)
     fail |-> "none",       \* which read before the request failed
     primary |-> "none",    \* kind of the primary response
     secondary |-> "none",  \* kind of the commentary response
     char_content |-> "",   \* text of the commentary response
     late |-> "none",       \* which step after the primary response failed
     want_shot |-> FALSE,   \* include_screenshot as passed
     \* what the invocation found when it started
     store0 |-> <<>>, cooldown0 |-> NoFile, key0 |-> "absent",
     prompts0 |-> [f \in PromptFiles |-> NoPrompt]]

\* a fresh invocation of command `op`: its locals are reset, and the store,
\* cooldown file and api key it found are remembered
Fresh(op, fail) ==
    [IdleTask EXCEPT !.op = op, !.fail = fail, !.now = now,
                     !.store0 = store, !.cooldown0 = cooldown, !.key0 = apiKey,
                     !.prompts0 = prompts]

\* the invocation returns
Return(rec, res) == [rec EXCEPT !.pc = "idle", !.result = res]

Init ==
    /\ store = <<>>
    /\ cooldown = NoFile
    /\ now = 0
    /\ apiKey = "absent"
    /\ prompts = [f \in PromptFiles |-> NoPrompt]
    /\ tasks = [t \in Seq2 |-> IdleTask]
    /\ overlay = OverlayAtSetup
    /\ listening = NotListening

\* main.rs 186-198
save_api_key(key) ==
    /\ apiKey # key
    /\ apiKey' = key
    /\ UNCHANGED <<store, cooldown, now, prompts, tasks, overlay, listening>>

\* the system clock advances
Tick(d) ==
    /\ now + d <= MaxNow
    /\ now' = now + d
    /\ UNCHANGED <<store, cooldown, apiKey, prompts, tasks, overlay, listening>>


----------------------------------------------------------------------------
(* trigger_deep_research, main.rs 656-737 *)

ResponseKinds == {"transport", "status", "badjson", "nofield", "text"}

\* a check that stamps the file again when it blocks
CooldownAfterCheck_Restamps(file, o, n) ==
    IF o.kind = "blocked" THEN NumFile(n) ELSE file

\* main.rs 667-681: the check reads the cooldown file and never writes it
CooldownAfterCheck(file, o, n) == file

\* a run that reads the window of send_chat_message
TriggerAdmit_ChatWindow(rec, o, fail) ==
    CASE o.kind = "blocked" ->
            Return([rec EXCEPT !.gate = "blocked", !.remaining = o.remaining], "cooldown")
      [] o.kind = "panic" -> Return([rec EXCEPT !.gate = "panic"], "panic")
      [] OTHER ->
            IF apiKey = "absent" \/ fail # "none"
            THEN Return([rec EXCEPT !.gate = "open"], "err")
            ELSE [rec EXCEPT !.gate = "open", !.pc = "research", !.reqs = 1,
                             !.messages = ResearchMessages(get_chat_history_internal(ChatWindow))]

\* main.rs 674-686: what the invocation does with the outcome of the check
\* (fail: which of the reads of lines 684-686 fails, if any)
TriggerAdmit(rec, o, fail) ==
    CASE o.kind = "blocked" ->
            Return([rec EXCEPT !.gate = "blocked", !.remaining = o.remaining], "cooldown")
      [] o.kind = "panic" -> Return([rec EXCEPT !.gate = "panic"], "panic")
      [] OTHER ->
            IF apiKey = "absent" \/ fail # "none"
            THEN Return([rec EXCEPT !.gate = "open"], "err")
            ELSE [rec EXCEPT !.gate = "open", !.pc = "research", !.reqs = 1,
                             !.messages = ResearchMessages(get_chat_history_internal(ResearchWindow))]

\* main.rs 657-708: up to the completion request being sent
TriggerBegin(t, readOk, fail) ==
    /\ tasks[t].pc = "idle"
    /\ MayStart
    /\ IF cooldown.kind # "absent" /\ ~readOk
       THEN /\ tasks' = [tasks EXCEPT ![t] =
                     Return([Fresh("trigger", fail) EXCEPT !.gate = "unread"], "err")]
            /\ cooldown' = cooldown
       ELSE \E o \in CooldownCheck(now, cooldown) :
                /\ tasks' = [tasks EXCEPT ![t] = TriggerAdmit(Fresh("trigger", fail), o, fail)]
                /\ cooldown' = CooldownAfterCheck(cooldown, o, now)
    /\ UNCHANGED <<store, now, apiKey, prompts, overlay, listening>>

\* main.rs 708-716: the response is an error for the run
ResearchFailed(outcome) == outcome \in {"transport", "status", "badjson"}

\* main.rs 717-720
Insights(outcome, reply) ==
    IF outcome = "nofield" THEN "No insights generated" ELSE reply

\* main.rs 722-724: the store after the response step
StoreAfterResearch(outcome, reply, storeOk) ==
    IF ~ResearchFailed(outcome) /\ storeOk
    THEN store_chat_message(store, "deep-thought", Insights(outcome, reply), 2)
    ELSE store

\* the stamp written before the result is stored
CooldownAfterResearch_StampsFirst(n, outcome, storeOk, writeOk) ==
    IF outcome \notin {"transport", "status", "badjson"} /\ writeOk
    THEN NumFile(n)
    ELSE cooldown

\* main.rs 724-730: the cooldown file after the response step; `n` is the
\* clock value read at line 662
CooldownAfterResearch(n, outcome, storeOk, writeOk) ==
    IF ~ResearchFailed(outcome) /\ storeOk /\ writeOk
    THEN NumFile(n)
    ELSE cooldown

\* main.rs 708-737: from the response to the return
TriggerResponse(t, outcome, reply, storeOk, writeOk) ==
    /\ tasks[t].pc = "research"
    /\ store' = StoreAfterResearch(outcome, reply, storeOk)
    /\ cooldown' = CooldownAfterResearch(tasks[t].now, outcome, storeOk, writeOk)
    /\ tasks' = [tasks EXCEPT ![t] =
          IF ResearchFailed(outcome)
          THEN Return([@ EXCEPT !.primary = outcome], "err")
          ELSE IF ~storeOk
          THEN Return([@ EXCEPT !.primary = outcome, !.late = "store"], "err")
          ELSE IF ~writeOk
          THEN Return([@ EXCEPT !.primary = outcome, !.late = "stamp"], "err")
          ELSE Return([@ EXCEPT !.primary = outcome,
                                !.main_response = Insights(outcome, reply)], "ok")]
    /\ UNCHANGED <<now, apiKey, prompts, overlay, listening>>


----------------------------------------------------------------------------
(* send_chat_message, main.rs 417-642 *)

\* a screenshot whenever the caller asks for one
TakesScreenshot_AnyLevel(include_screenshot, context_level) == include_screenshot

\* main.rs 448: a screenshot is taken
TakesScreenshot(include_screenshot, context_level) ==
    include_screenshot /\ context_level = 0

\* BeginFailed without the key check of lines 426-429
BeginFailed_NoKeyCheck(include_screenshot, context_level, fail) ==
    \/ fail \in {"prompt", "history"}
    \/ fail = "screenshot" /\ TakesScreenshot(include_screenshot, context_level)

\* main.rs 426-458: the reads before the request is built fail
\* (fail: which of the prompt, screenshot or history reads fails, if any)
BeginFailed(include_screenshot, context_level, fail) ==
    \/ apiKey = "absent"
    \/ fail \in {"prompt", "history"}
    \/ fail = "screenshot" /\ TakesScreenshot(include_screenshot, context_level)

\* main.rs 417-553: up to the primary completion request being sent
SendBegin(t, message, include_screenshot, context_level, fail) ==
    /\ tasks[t].pc = "idle"
    /\ MayStart
    /\ LET rec == [Fresh("send", fail) EXCEPT !.message = message, !.level = context_level,
                                             !.want_shot = include_screenshot]
           history == get_chat_history_internal(ChatWindow)
           shot == TakesScreenshot(include_screenshot, context_level)
       IN  tasks' = [tasks EXCEPT ![t] =
              IF BeginFailed(include_screenshot, context_level, fail)
              THEN Return(rec, "err")
              ELSE [rec EXCEPT !.pc = "primary", !.reqs = 1, !.shot = shot,
                               !.messages = BuildMessages(context_level, history, message, shot)]]
    /\ UNCHANGED <<store, cooldown, now, apiKey, prompts, overlay, listening>>

\* PrimaryFailed without the status check of lines 555-558
PrimaryFailed_NoStatusCheck(outcome) == outcome \in {"transport", "badjson"}

\* PrimaryFailed without the parse of lines 560-563
PrimaryFailed_AcceptsBadJson(outcome) == outcome \in {"transport", "status"}

\* main.rs 553-563: the primary response is an error for the turn
PrimaryFailed(outcome) == outcome \in {"transport", "status", "badjson"}

\* an answer with no placeholder
MainResponse_NoPlaceholder(outcome, reply) ==
    IF outcome = "nofield" THEN "" ELSE reply

\* main.rs 565-568
MainResponse(outcome, reply) ==
    IF outcome = "nofield" THEN "No response" ELSE reply

\* main.rs 553-568: the primary response arrives
SendPrimaryResponse(t, outcome, reply) ==
    /\ tasks[t].pc = "primary"
    /\ tasks' = [tasks EXCEPT ![t] =
          IF PrimaryFailed(outcome)
          THEN Return([@ EXCEPT !.primary = outcome], "err")
          ELSE [@ EXCEPT !.primary = outcome, !.pc = "store_user",
                         !.main_response = MainResponse(outcome, reply)]]
    /\ UNCHANGED <<store, cooldown, now, apiKey, prompts, overlay, listening>>

\* main.rs 571-572: the user turn is stored
SendStoreUser(t, storeOk) ==
    /\ tasks[t].pc = "store_user"
    /\ IF storeOk
       THEN /\ store' = store_chat_message(store, "user", tasks[t].message, tasks[t].level)
            /\ tasks' = [tasks EXCEPT ![t].pc = "store_answer"]
       ELSE /\ store' = store
            /\ tasks' = [tasks EXCEPT ![t] = Return([@ EXCEPT !.late = "store_user"], "err")]
    /\ UNCHANGED <<cooldown, now, apiKey, prompts, overlay, listening>>

\* a commentary at every level but 2
WantsCommentary_AlsoAtLevel1(context_level) == context_level # 2

\* main.rs 574-589: the commentary is generated in the last arm only
WantsCommentary(context_level) == context_level \notin {1, 2}

\* main.rs 574-613: the answer is stored; at level 0 (and every level other
\* than 1 and 2) the commentary request is sent
SendStoreAnswer(t, storeOk, promptOk) ==
    /\ tasks[t].pc = "store_answer"
    /\ LET lvl == tasks[t].level IN
       IF ~storeOk
       THEN /\ store' = store
            /\ tasks' = [tasks EXCEPT ![t] = Return([@ EXCEPT !.late = "store_answer"], "err")]
       ELSE /\ store' = store_chat_message(store, AnswerRole(lvl), tasks[t].main_response,
                                            AnswerLevel(lvl))
            /\ tasks' = [tasks EXCEPT ![t] =
                  IF ~WantsCommentary(lvl) THEN Return(@, "ok")
                  ELSE IF ~promptOk THEN Return([@ EXCEPT !.late = "char_prompt"], "err")
                  ELSE [@ EXCEPT !.pc = "commentary", !.reqs = 2]]
    /\ UNCHANGED <<cooldown, now, apiKey, prompts, overlay, listening>>

\* main.rs 615-620: the text of the commentary (a sequence of characters),
\* empty when there is none
CharContent(outcome, reply) ==
    IF outcome = "text" THEN reply ELSE <<>>

\* main.rs 615-641: the commentary response arrives
SendCommentaryResponse(t, outcome, reply, storeOk) ==
    /\ tasks[t].pc = "commentary"
    /\ LET char_content == CharContent(outcome, reply)
           rec == [tasks[t] EXCEPT !.secondary = outcome, !.char_content = Str(char_content)]
       IN
       IF outcome \in {"transport", "status", "badjson"} \/ char_content = <<>>
       THEN /\ store' = store
            /\ tasks' = [tasks EXCEPT ![t] = Return(rec, "ok")]
       ELSE IF ~storeOk
       THEN /\ store' = store
            /\ tasks' = [tasks EXCEPT ![t] = Return([rec EXCEPT !.late = "store_comment"], "err")]
       ELSE /\ store' = store_chat_message(store, "miku", Str(char_content), 0)
            /\ tasks' = [tasks EXCEPT ![t] = Return([rec EXCEPT !.comments = <<Str(Trim(char_content))>>], "ok")]
    /\ UNCHANGED <<cooldown, now, apiKey, prompts, overlay, listening>>

----------------------------------------------------------------------------
(* The environment: the cooldown file is an ordinary file and the clock is   *)
(* the wall clock, which can be stepped back                                 *)

EditCooldownFile(file) ==
    /\ cooldown # file
    /\ cooldown' = file
    /\ UNCHANGED <<store, now, apiKey, prompts, tasks, overlay, listening>>

ClockStepBack(d) ==
    /\ now - d >= 0
    /\ now' = now - d
    /\ UNCHANGED <<store, cooldown, apiKey, prompts, tasks, overlay, listening>>

----------------------------------------------------------------------------
(* Overlay commands, main.rs 954-1029 and 1186-1298 *)

\* main.rs 1188-1216: the state after show_overlay (ok: window.show() and
\* set_focus() succeed)
ShowOverlay(o, ok) ==
    IF o.window /\ ok
    THEN [o EXCEPT !.overlay_visible = TRUE, !.toggle_text = "Hide Character"]
    ELSE o

\* main.rs 1222-1235: the state after hide_overlay (ok: window.hide() succeeds)
HideOverlay(o, ok) ==
    IF o.window /\ ok
    THEN [o EXCEPT !.overlay_visible = FALSE, !.toggle_text = "Show Character"]
    ELSE o

\* a command other than toggle_overlay was the last one
NoToggle(o) == [o EXCEPT !.returned = "none", !.previous = "none"]

show_overlay(ok) ==
    /\ overlay' = NoToggle(ShowOverlay(overlay, ok))
    /\ UNCHANGED <<chat, listening>>

hide_overlay(ok) ==
    /\ overlay' = NoToggle(HideOverlay(overlay, ok))
    /\ UNCHANGED <<chat, listening>>

\* main.rs 1243-1249: what toggle_overlay returns
ToggleReturns(is_visible, window, ok) ==
    IF window /\ ~ok THEN "err"
    ELSE IF is_visible THEN "false" ELSE "true"

\* main.rs 1239-1250
toggle_overlay(ok) ==
    /\ LET is_visible == overlay.overlay_visible
           after == IF is_visible THEN HideOverlay(overlay, ok) ELSE ShowOverlay(overlay, ok)
       IN  overlay' = [after EXCEPT !.previous = overlay.returned,
                                    !.returned = ToggleReturns(is_visible, overlay.window, ok)]
    /\ UNCHANGED <<chat, listening>>

\* main.rs 1253-1293: the toggle of the tray menu and the tray icon; the
\* results of hide(), show() and set_focus() are dropped
toggle_overlay_sync ==
    /\ overlay' = NoToggle(IF overlay.overlay_visible
                           THEN HideOverlay(overlay, TRUE)
                           ELSE ShowOverlay(overlay, TRUE))
    /\ UNCHANGED <<chat, listening>>

\* main.rs 954-1029 (fault: the step that fails, if any): the window is
\* closed and built again, shown, and overlay_visible set; the tray item is
\* not touched
ReloadCharacter(o, fault) ==
    IF o.window /\ fault = "close" THEN o
    ELSE IF fault = "build" THEN [o EXCEPT !.window = FALSE]
    ELSE IF fault = "show" THEN [o EXCEPT !.window = TRUE]
    ELSE [o EXCEPT !.window = TRUE, !.overlay_visible = TRUE]

reload_character(fault) ==
    /\ overlay' = NoToggle(ReloadCharacter(overlay, fault))
    /\ UNCHANGED <<chat, listening>>

----------------------------------------------------------------------------
(* start_device_listening, main.rs 1361-1385 *)

\* main.rs 1365-1367: the flag is loaded; the call returns when it is set
start_device_listening(t) ==
    /\ listening.pc[t] = "idle"
    /\ ~listening.IS_LISTENING
    /\ listening' = [listening EXCEPT !.pc[t] = "loaded"]
    /\ UNCHANGED <<chat, overlay>>

\* main.rs 1368-1384: the flag is stored and the listener thread spawned
SpawnListener(t) ==
    /\ listening.pc[t] = "loaded"
    /\ listening' = [listening EXCEPT !.pc[t] = "idle", !.IS_LISTENING = TRUE,
                                      !.spawned = @ + 1]
    /\ UNCHANGED <<chat, overlay>>

----------------------------------------------------------------------------
(* Specifications *)

BeginFaults == {"none", "prompt", "screenshot", "history"}
CommentReplies == {<<>>, <<"w", "o", "w">>}
\* the same, and texts with white space
CommentTexts == CommentReplies \cup {<<" ">>, <<" ", "w", "o", "w", "\n">>}

\* invocations of trigger_deep_research by the tasks of T
TriggerCommands(T) ==
    \/ \E t \in T, readOk \in BOOLEAN, fail \in {"none", "prompt", "history"} :
          TriggerBegin(t, readOk, fail)
    \/ \E t \in T, outcome \in ResponseKinds, reply \in Replies, storeOk, writeOk \in BOOLEAN :
          TriggerResponse(t, outcome, reply, storeOk, writeOk)

\* invocations of send_chat_message by the tasks of T
SendCommands(T) ==
    \/ \E t \in T, message \in UserMsgs, include_screenshot \in BOOLEAN,
          context_level \in LevelInputs, fail \in BeginFaults :
          SendBegin(t, message, include_screenshot, context_level, fail)
    \/ \E t \in T, outcome \in ResponseKinds, reply \in Replies :
          SendPrimaryResponse(t, outcome, reply)
    \/ \E t \in T, storeOk \in BOOLEAN : SendStoreUser(t, storeOk)
    \/ \E t \in T, storeOk, promptOk \in BOOLEAN : SendStoreAnswer(t, storeOk, promptOk)
    \/ \E t \in T, outcome \in ResponseKinds, reply \in CommentReplies, storeOk \in BOOLEAN :
          SendCommentaryResponse(t, outcome, reply, storeOk)

\* Spec: one command at a time, a clock that only advances, files that only
\* the program writes
Next ==
    \/ save_api_key("sk-key")
    \/ \E d \in TickSteps : Tick(d)
    \/ TriggerCommands(Seq1)
    \/ SendCommands(Seq1)

Spec == Init /\ [][Next]_vars

\* SpecEnv: deep-research runs, one at a time, in an environment that edits
\* the cooldown file and steps the clock back
NextEnv ==
    \/ save_api_key("sk-key")
    \/ \E d \in TickSteps : Tick(d)
    \/ TriggerCommands(Seq1)
    \/ \E file \in {NoFile, TextFile} \cup {NumFile(n) : n \in Stamps} : EditCooldownFile(file)
    \/ \E d \in TickSteps : ClockStepBack(d)

SpecEnv == Init /\ [][NextEnv]_vars

\* SpecConc: two deep-research invocations running concurrently (tauri runs
\* async commands on a multi-threaded runtime)
NextConc ==
    \/ save_api_key("sk-key")
    \/ \E d \in TickSteps : Tick(d)
    \/ TriggerCommands(Seq2)

SpecConc == Init /\ [][NextConc]_vars

\* SpecPrompts: prompts are saved between messages; the requests are built
\* and their primary call fails, so that the store stays as it is
PromptInputs == {<<" ">>, <<" ", "o", "k", "\n">>, <<"g", "o">>}

NextPrompts ==
    \/ save_api_key("sk-key")
    \/ \E prompt \in PromptInputs : save_system_prompt(prompt)
    \/ \E prompt \in PromptInputs : save_dialogue_prompt(prompt)
    \/ \E prompt \in PromptInputs : save_deep_research_prompt(prompt)
    \/ \E message \in UserMsgs, context_level \in LevelInputs :
          SendBegin(1, message, FALSE, context_level, "none")
    \/ SendPrimaryResponse(1, "status", "ok")

SpecPrompts == Init /\ [][NextPrompts]_vars

\* SpecLevels: messages sent with any value of the u8 context_level, and no
\* failure of a file or store
U8Inputs == {0, 1, 2, 3, 255}

NextLevels ==
    \/ save_api_key("sk-key")
    \/ \E message \in UserMsgs, include_screenshot \in BOOLEAN, context_level \in U8Inputs :
          SendBegin(1, message, include_screenshot, context_level, "none")
    \/ \E outcome \in {"status", "nofield", "text"}, reply \in Replies :
          SendPrimaryResponse(1, outcome, reply)
    \/ SendStoreUser(1, TRUE)
    \/ SendStoreAnswer(1, TRUE, TRUE)
    \/ \E outcome \in {"status", "text"}, reply \in CommentTexts :
          SendCommentaryResponse(1, outcome, reply, TRUE)

SpecLevels == Init /\ [][NextLevels]_vars

\* SpecHistory: the commands on a store that already holds a long log of
\* exchanges of every level
RoleOfTurn(i) ==
    CASE i % 4 = 1 -> "user"
      [] i % 4 = 2 -> "assistant"
      [] i % 4 = 3 -> "miku"
      [] OTHER -> "deep-thought"

Log(n) ==
    [i \in 1..n |-> [role |-> RoleOfTurn(i), content |-> "m" \o ToString(i),
                     level |-> IF RoleOfTurn(i) = "deep-thought" THEN 2 ELSE 0]]

InitHistory ==
    /\ store \in {Log(n) : n \in {0} \cup LongLogs}
    /\ cooldown = NoFile
    /\ now = 0
    /\ apiKey = "absent"
    /\ prompts = [f \in PromptFiles |-> NoPrompt]
    /\ tasks = [t \in Seq2 |-> IdleTask]
    /\ overlay = OverlayAtSetup
    /\ listening = NotListening

NextHistory ==
    \/ save_api_key("sk-key")
    \/ \E d \in TickSteps : Tick(d)
    \/ TriggerBegin(1, TRUE, "none")
    \/ \E outcome \in {"status", "text"}, reply \in Replies :
          TriggerResponse(1, outcome, reply, TRUE, TRUE)
    \/ \E message \in UserMsgs, context_level \in LevelInputs :
          SendBegin(1, message, FALSE, context_level, "none")
    \/ SendPrimaryResponse(1, "status", "ok")

SpecHistory == InitHistory /\ [][NextHistory]_vars

\* SpecSends: two send_chat_message invocations running concurrently, with
\* no failure of a file or store
NextSends ==
    \/ save_api_key("sk-key")
    \/ \E t \in Seq2, message \in UserMsgs, context_level \in LevelInputs :
          SendBegin(t, message, FALSE, context_level, "none")
    \/ \E t \in Seq2, outcome \in {"status", "text"}, reply \in Replies :
          SendPrimaryResponse(t, outcome, reply)
    \/ \E t \in Seq2 : SendStoreUser(t, TRUE)
    \/ \E t \in Seq2 : SendStoreAnswer(t, TRUE, TRUE)
    \/ \E t \in Seq2, outcome \in {"status", "text"}, reply \in CommentReplies :
          SendCommentaryResponse(t, outcome, reply, TRUE)

SpecSends == Init /\ [][NextSends]_vars

\* SpecShell: the overlay commands, the tray toggle, and
\* start_device_listening called from two places at once
ReloadFaults == {"none", "close", "build", "show", "emit"}

NextShell ==
    \/ \E ok \in BOOLEAN : show_overlay(ok)
    \/ \E ok \in BOOLEAN : hide_overlay(ok)
    \/ \E ok \in BOOLEAN : toggle_overlay(ok)
    \/ toggle_overlay_sync
    \/ \E fault \in ReloadFaults : reload_character(fault)
    \/ \E t \in Seq2 : start_device_listening(t)
    \/ \E t \in Seq2 : SpawnListener(t)

SpecShell == Init /\ [][NextShell]_vars

----------------------------------------------------------------------------
(* Properties *)

Sends == {t \in Seq2 : tasks[t].op = "send" /\ tasks[t].messages # <<>>}

\* the trigger invocations whose cooldown check ran (the file, if any, was read)
Checked == {t \in Seq2 : tasks[t].op = "trigger" /\ tasks[t].gate \in {"open", "blocked", "panic"}}

\* the stored turns a request was made from
Sources(t) == {tasks[t].messages[i].src : i \in 1..Len(tasks[t].messages)} \ {NoTurn}

\* C1: the context send_chat_message assembles holds only turns whose role
\* the level allows: at level 0 every role but deep-thought, at level 1 only
\* user, miku and assistant, at level 2 only user and deep-thought.
C1_ContextRolesAllowed ==
    \A t \in Sends : \A src \in Sources(t) :
        /\ tasks[t].level = 0 => src.role \in {"user", "assistant", "miku"}
        /\ tasks[t].level = 1 => src.role \in {"user", "miku", "assistant"}
        /\ tasks[t].level = 2 => src.role \in {"user", "deep-thought"}

\* a level-2 request built over a history that holds an assistant turn and
\* a turn the level admits
C1_Witness ==
    \E t \in Sends :
        /\ tasks[t].level = 2
        /\ \E i \in 1..Len(tasks[t].store0) : tasks[t].store0[i].role = "assistant"
        /\ Sources(t) # {}

\* C2 as stated: a level-1 context holds no turn stored at level 2, a
\* level-2 context no turn stored at level 1, a level-0 context no turn
\* stored at level 2.
C2_NoTurnOfOtherLevel ==
    \A t \in Sends : \A src \in Sources(t) :
        /\ tasks[t].level = 1 => src.level # 2
        /\ tasks[t].level = 2 => src.level # 1
        /\ tasks[t].level = 0 => src.level # 2

\* C2 amended: the same of every turn that is not a user turn; user turns
\* enter the context of every level.
C2_NoAnswerOfOtherLevel ==
    \A t \in Sends : \A src \in Sources(t) :
        src.role # "user" =>
            /\ tasks[t].level = 1 => src.level # 2
            /\ tasks[t].level = 2 => src.level # 1
            /\ tasks[t].level = 0 => src.level # 2

\* a level-1 request built while the store holds a level-2 deep-thought turn,
\* with some turn in its context
C2_Witness ==
    \E t \in Sends :
        /\ tasks[t].level = 1
        /\ \E i \in 1..Len(tasks[t].store0) :
              tasks[t].store0[i].role = "deep-thought" /\ tasks[t].store0[i].level = 2
        /\ Sources(t) # {}

\* C3 as stated: the gate blocks exactly when the stored timestamp parses and
\* now - last_triggered_at < 21600, then reporting 21600 - (now -
\* last_triggered_at) seconds; otherwise the request is admitted.
C3_BlockedIffWithinSixHours ==
    \A t \in Checked :
        LET file == tasks[t].cooldown0
            within == file.kind = "num" /\ tasks[t].now - file.val < 21600
        IN  /\ within => /\ tasks[t].gate = "blocked"
                         /\ tasks[t].result = "cooldown"
                         /\ tasks[t].remaining = 21600 - (tasks[t].now - file.val)
            /\ ~within => tasks[t].gate = "open"

\* C4: with no cooldown file, or one whose text does not parse as an
\* unsigned integer, the gate is open and the run proceeds: the invocation
\* is not rejected, and sends its request unless the key or a read is missing.
C4_FailsOpen ==
    \A t \in Checked :
        tasks[t].cooldown0.kind \in {"absent", "text"} =>
            /\ tasks[t].gate = "open"
            /\ tasks[t].result \notin {"cooldown", "panic"}
            /\ (tasks[t].key0 # "absent" /\ tasks[t].fail = "none") => tasks[t].reqs = 1

\* a run that sent its request over a cooldown file that does not parse
C4_Witness ==
    \E t \in Checked : tasks[t].cooldown0.kind = "text" /\ tasks[t].reqs = 1

\* C5: a blocked invocation sends no request, appends nothing and leaves the
\* cooldown file as it was.
C5_BlockedChangesNothing ==
    \A t \in Seq2 :
        (tasks[t].op = "trigger" /\ tasks[t].result = "cooldown") =>
            /\ tasks[t].reqs = 0
            /\ store = tasks[t].store0
            /\ cooldown = tasks[t].cooldown0

\* a blocked invocation made later than the run that stamped the cooldown
C5_Witness ==
    \E t \in Seq2 :
        /\ tasks[t].op = "trigger" /\ tasks[t].result = "cooldown"
        /\ tasks[t].now > tasks[t].cooldown0.val

\* C6: a run that fails before its result is stored leaves the cooldown file
\* as it was, and the gate it found open is still open.
C6_FailedRunDoesNotStamp ==
    \A t \in Seq2 :
        (tasks[t].op = "trigger" /\ tasks[t].result = "err" /\ store = tasks[t].store0) =>
            /\ cooldown = tasks[t].cooldown0
            /\ tasks[t].gate = "open" =>
                  \/ cooldown.kind # "num"
                  \/ now - cooldown.val >= 21600

\* a run that failed after its request was sent
C6_Witness ==
    \E t \in Seq2 :
        /\ tasks[t].op = "trigger" /\ tasks[t].result = "err"
        /\ tasks[t].reqs = 1 /\ store = tasks[t].store0

\* C7 as stated: of two concurrent invocations at most one is admitted and
\* has a completion request in flight.
C7_AtMostOneRunInFlight ==
    \A t, u \in Seq2 :
        (tasks[t].pc = "research" /\ tasks[u].pc = "research") => t = u

C9_UserThenAnswer ==
    \A t \in Seq2 :
        (tasks[t].op = "send" /\ tasks[t].result = "ok") =>
            LET n == Len(tasks[t].store0) IN
            /\ Len(store) >= n + 2
            /\ SubSeq(store, 1, n) = tasks[t].store0
            /\ store[n + 1] = [role |-> "user", content |-> tasks[t].message,
                               level |-> tasks[t].level]
            /\ store[n + 2].content = tasks[t].main_response
            /\ tasks[t].level = 0 => store[n + 2].role = "assistant"
            /\ tasks[t].level = 1 => store[n + 2].role = "miku"
            /\ tasks[t].level = 2 => store[n + 2].role = "deep-thought"

\* a successful level-2 exchange
C9_Witness ==
    \E t \in Seq2 :
        /\ tasks[t].op = "send" /\ tasks[t].result = "ok" /\ tasks[t].level = 2
        /\ Len(store) = Len(tasks[t].store0) + 2

\* C10: when the primary call fails (transport error or non-2xx status) the
\* invocation returns an error, nothing is appended and no commentary
\* request is sent.
C10_PrimaryFailurePersistsNothing ==
    \A t \in Seq2 :
        (tasks[t].op = "send" /\ tasks[t].primary \in {"transport", "status"}) =>
            /\ tasks[t].result = "err"
            /\ tasks[t].pc = "idle"
            /\ store = tasks[t].store0
            /\ tasks[t].reqs = 1

\* a level-0 invocation whose primary call came back with a non-2xx status
C10_Witness ==
    \E t \in Seq2 :
        /\ tasks[t].op = "send" /\ tasks[t].primary = "status"
        /\ tasks[t].level = 0 /\ tasks[t].result = "err"

\* C11 as stated: at level 0, once the primary answer is obtained and
\* stored, no failure of the commentary step fails the turn: the invocation
\* returns success, and without commentary when that step failed.
C11_CommentaryNeverFailsTurn ==
    \A t \in Seq2 :
        (/\ tasks[t].op = "send" /\ tasks[t].level = 0 /\ tasks[t].pc = "idle"
         /\ tasks[t].primary \in {"nofield", "text"}
         /\ tasks[t].late \notin {"store_user", "store_answer"}) =>
            /\ tasks[t].result = "ok"
            /\ (tasks[t].late # "none" \/ tasks[t].secondary # "text") => tasks[t].comments = <<>>

\* C12: at levels 1 and 2 one completion request is sent and no commentary
\* is returned or stored; at level 0 a second request is sent, and when it
\* brings a text that is stored, the turn appended is a miku turn of level 0
\* and one item is returned.
C12_CommentaryAtLevel0Only ==
    \A t \in Seq2 :
        tasks[t].op = "send" =>
            LET n == Len(tasks[t].store0) IN
            /\ tasks[t].level \in {1, 2} =>
                  /\ tasks[t].reqs <= 1
                  /\ tasks[t].comments = <<>>
                  /\ tasks[t].result = "ok" => (tasks[t].reqs = 1 /\ Len(store) = n + 2)
            /\ (tasks[t].level = 0 /\ tasks[t].result = "ok") =>
                  /\ tasks[t].reqs = 2
                  /\ (tasks[t].secondary = "text" /\ tasks[t].char_content # "") =>
                        /\ Len(tasks[t].comments) = 1
                        /\ Len(store) = n + 3
                        /\ store[n + 3].role = "miku"
                        /\ store[n + 3].level = 0
                        /\ store[n + 3].content = tasks[t].char_content
                  /\ tasks[t].comments = <<>> => Len(store) = n + 2

\* a level-0 exchange that returned a commentary
C12_Witness ==
    \E t \in Seq2 :
        /\ tasks[t].op = "send" /\ tasks[t].level = 0 /\ tasks[t].result = "ok"
        /\ tasks[t].comments # <<>>

\* C13: the message list of a request is one system entry, then the
\* included turns of the history in store order, each once, then the current
\* input as the last entry; with no included turn it is [system, input].
C13_MessageListShape ==
    \A t \in Sends :
        LET m == tasks[t].messages
            h == tasks[t].store0
            k == Len(m) - 2
        IN  /\ Len(m) >= 2
            /\ m[1].role = "system" /\ m[1].src = NoTurn
            /\ m[Len(m)].role = "user" /\ m[Len(m)].src = NoTurn
            /\ m[Len(m)].content = tasks[t].message
            /\ \A i \in 2..(Len(m) - 1) : m[i].role \in {"user", "assistant"} /\ m[i].src # NoTurn
            /\ \E f \in [1..k -> 1..Len(h)] :
                  /\ \A i, j \in 1..k : i < j => f[i] < f[j]
                  /\ \A i \in 1..k : m[i + 1].src = Turn(h[f[i]])
                  /\ \A j \in 1..Len(h) :
                        (\E i \in 1..k : f[i] = j) <=> IncludeMsg(tasks[t].level, h[j])
            /\ (\A j \in 1..Len(h) : ~IncludeMsg(tasks[t].level, h[j])) => Len(m) = 2

\* a request with two history entries made from different turns
C13_Witness ==
    \E t \in Sends :
        /\ Len(tasks[t].messages) >= 4
        /\ tasks[t].messages[2].src # tasks[t].messages[3].src

\* C14: every history entry of a request has role user or assistant and
\* carries the tag of its origin: a miku turn is assistant, tagged inner
\* thoughts at level 1 and Miku otherwise; an assistant turn at level 1 is
\* tagged AI Assistant Response; a deep-thought turn is assistant tagged
\* Analysis; a user turn, and an assistant turn at level 0, is unchanged.
C14_RelabelTags ==
    \A t \in Sends :
        \A i \in 2..(Len(tasks[t].messages) - 1) :
            LET e == tasks[t].messages[i]
                lvl == tasks[t].level
                From(role, tag) ==
                    /\ e.role = role
                    /\ \E j \in 1..Len(tasks[t].store0) :
                          /\ Turn(tasks[t].store0[j]) = e.src
                          /\ e.content = tag \o tasks[t].store0[j].content
            IN  /\ e.role \in {"user", "assistant"}
                /\ (e.src.role = "miku" /\ lvl = 1) => From("assistant", "[Miku's Inner Thoughts]: ")
                /\ (e.src.role = "miku" /\ lvl # 1) => From("assistant", "[Miku]: ")
                /\ (e.src.role = "assistant" /\ lvl = 1) => From("assistant", "[AI Assistant Response]: ")
                /\ e.src.role = "deep-thought" => From("assistant", "[Analysis]: ")
                /\ e.src.role = "user" => From("user", "")
                /\ (e.src.role = "assistant" /\ lvl = 0) => From("assistant", "")

\* a level-1 request whose history holds an answer of the assistant
C14_Witness ==
    \E t \in Sends :
        /\ tasks[t].level = 1
        /\ \E i \in 2..(Len(tasks[t].messages) - 1) : tasks[t].messages[i].src.role = "assistant"

\* C15: a screenshot is taken and attached to the last entry exactly when the
\* level is 0 and the caller asked for it; at levels 1 and 2 no capture is
\* attempted, so a failing capture cannot fail the command there.
C15_ScreenshotOnlyAtLevel0 ==
    \A t \in Seq2 :
        tasks[t].op = "send" =>
            /\ tasks[t].messages # <<>> =>
                  LET m == tasks[t].messages IN
                  /\ tasks[t].shot <=> (tasks[t].level = 0 /\ tasks[t].want_shot)
                  /\ m[Len(m)].image = tasks[t].shot
                  /\ \A i \in 1..(Len(m) - 1) : ~m[i].image
            /\ (tasks[t].level \in {1, 2} /\ tasks[t].fail = "screenshot"
                    /\ tasks[t].key0 # "absent") => tasks[t].reqs >= 1
            /\ (tasks[t].level = 0 /\ tasks[t].want_shot /\ tasks[t].fail = "screenshot") =>
                  tasks[t].reqs = 0 /\ tasks[t].result = "err"

\* a request that carries a screenshot
C15_Witness ==
    \E t \in Sends : tasks[t].shot /\ tasks[t].messages[Len(tasks[t].messages)].image

\* C16: with no api key file, send_chat_message, and trigger_deep_research
\* past an open gate, return an error having sent no request, appended no
\* turn and left the cooldown file as it was.
C16_NoKeyFailsFast ==
    \A t \in Seq2 :
        (/\ tasks[t].key0 = "absent"
         /\ \/ tasks[t].op = "send"
            \/ tasks[t].op = "trigger" /\ tasks[t].gate = "open") =>
            /\ tasks[t].pc = "idle" /\ tasks[t].result = "err"
            /\ tasks[t].reqs = 0 /\ tasks[t].messages = <<>>
            /\ store = tasks[t].store0
            /\ cooldown = tasks[t].cooldown0

\* a message sent before any key was saved, with nothing else to fail
C16_Witness ==
    \E t \in Seq2 :
        /\ tasks[t].op = "send" /\ tasks[t].key0 = "absent" /\ tasks[t].fail = "none"
        /\ tasks[t].result = "err"

\* C17 as stated: when a store write of send_chat_message fails, the call
\* returns the error and the store holds exactly what it held before the call.
C17_StorageFailureNotPartial ==
    \A t \in Seq2 :
        (tasks[t].op = "send" /\ tasks[t].late \in {"store_user", "store_answer", "store_comment"}) =>
            /\ tasks[t].result = "err"
            /\ store = tasks[t].store0

\* C18: a 2xx response without choices[0].message.content is no error: the
\* answer is the placeholder ("No response" for send_chat_message,
\* "No insights generated" for trigger_deep_research), it is stored as the
\* answer, and the command succeeds unless a later step fails.
C18_MissingFieldGivesPlaceholder ==
    \A t \in Seq2 :
        LET n == Len(tasks[t].store0) IN
        /\ (tasks[t].op = "send" /\ tasks[t].primary = "nofield") =>
              /\ tasks[t].main_response = "No response"
              /\ (tasks[t].pc = "idle" /\ tasks[t].late = "none") =>
                    /\ tasks[t].result = "ok"
                    /\ Len(store) >= n + 2
                    /\ store[n + 2].content = "No response"
        /\ (tasks[t].op = "trigger" /\ tasks[t].primary = "nofield" /\ tasks[t].late = "none") =>
              /\ tasks[t].result = "ok"
              /\ tasks[t].main_response = "No insights generated"
              /\ store = Append(tasks[t].store0,
                     [role |-> "deep-thought", content |-> "No insights generated", level |-> 2])

\* an exchange that succeeded on a response without the field
C18_Witness ==
    \E t \in Seq2 :
        /\ tasks[t].op = "send" /\ tasks[t].primary = "nofield"
        /\ tasks[t].pc = "idle" /\ tasks[t].result = "ok"

\* C19 as stated: a 2xx primary response that is not valid JSON, or lacks
\* choices[0].message.content, makes send_chat_message return an error with
\* nothing persisted; the same from the commentary call only drops the
\* commentary.
C19_MalformedPrimaryFails ==
    \A t \in Seq2 :
        (tasks[t].op = "send" /\ tasks[t].pc = "idle") =>
            /\ tasks[t].primary \in {"badjson", "nofield"} =>
                  tasks[t].result = "err" /\ store = tasks[t].store0
            /\ tasks[t].secondary \in {"badjson", "nofield"} =>
                  tasks[t].result = "ok" /\ tasks[t].comments = <<>>

\* C19 amended: only a 2xx primary response that is not valid JSON makes
\* send_chat_message return an error with nothing persisted; one that is JSON
\* without the field does not end the turn, which goes on to store the user
\* turn; either kind from the commentary call only drops the commentary.
C19_UnparsablePrimaryFails ==
    \A t \in Seq2 :
        tasks[t].op = "send" =>
            /\ tasks[t].primary = "badjson" =>
                  /\ tasks[t].pc = "idle" /\ tasks[t].result = "err"
                  /\ tasks[t].reqs = 1
                  /\ store = tasks[t].store0
            /\ (tasks[t].primary = "nofield" /\ tasks[t].pc = "idle"
                    /\ tasks[t].late # "store_user") =>
                  Len(store) > Len(tasks[t].store0)
            /\ (tasks[t].secondary \in {"badjson", "nofield"} /\ tasks[t].pc = "idle") =>
                  /\ tasks[t].result = "ok" /\ tasks[t].comments = <<>>
                  /\ Len(store) = Len(tasks[t].store0) + 2

\* a primary response that was not JSON
C19_Witness ==
    \E t \in Seq2 :
        /\ tasks[t].op = "send" /\ tasks[t].primary = "badjson"
        /\ tasks[t].result = "err"

\* C20: the getters return the saved text trimmed, and the default when no
\* text was saved or only white space; the system entry of a request holds
\* what the getter of its level returned: system prompt at level 0, dialogue
\* prompt at level 1, deep-research prompt at level 2.
C20_PromptOfLevel ==
    LET Expected(file, default) ==
            CASE ~file.exists -> default
              [] file.exists /\ file.text = <<" ">> -> default
              [] file.exists /\ file.text = <<" ", "o", "k", "\n">> -> "ok"
              [] file.exists /\ file.text = <<"g", "o">> -> "go"
    IN  /\ get_system_prompt = Expected(prompts["system"], DEFAULT_SYSTEM_PROMPT)
        /\ get_dialogue_prompt = Expected(prompts["dialogue"], DEFAULT_DIALOGUE_PROMPT)
        /\ get_deep_research_prompt = Expected(prompts["deep"], DEFAULT_DEEP_RESEARCH_PROMPT)
        /\ \A t \in Sends :
              tasks[t].messages[1].content =
                  CASE tasks[t].level = 0 ->
                          Expected(tasks[t].prompts0["system"], DEFAULT_SYSTEM_PROMPT)
                    [] tasks[t].level = 1 ->
                          Expected(tasks[t].prompts0["dialogue"], DEFAULT_DIALOGUE_PROMPT)
                    [] tasks[t].level = 2 ->
                          Expected(tasks[t].prompts0["deep"], DEFAULT_DEEP_RESEARCH_PROMPT)

\* a level-1 request sent after a dialogue prompt with white space around it
\* was saved, and another system prompt
C20_Witness ==
    \E t \in Sends :
        /\ tasks[t].level = 1
        /\ tasks[t].prompts0["dialogue"] = PromptFile(<<" ", "o", "k", "\n">>)
        /\ tasks[t].prompts0["system"] = PromptFile(<<"g", "o">>)
        /\ tasks[t].messages[1].content = "ok"

C22_StoredLevelsInRange ==
    \A t \in Seq2 :
        tasks[t].op = "send" =>
            \A i \in (Len(tasks[t].store0) + 1)..Len(store) :
                /\ store[i].level \in {0, 1, 2}
                /\ store[i].level = IF tasks[t].level \in {1, 2} THEN tasks[t].level ELSE 0

\* C23 as stated: a trigger_deep_research call that appended a deep-thought
\* turn also stamped the cooldown file and returned success; a call that
\* returned an error or a cooldown left the store and the cooldown file as
\* they were.
C23_StampWithEveryStoredRun ==
    \A t \in Seq2 :
        (tasks[t].op = "trigger" /\ tasks[t].pc = "idle") =>
            /\ Len(store) > Len(tasks[t].store0) =>
                  /\ tasks[t].result = "ok"
                  /\ cooldown = NumFile(tasks[t].now)
            /\ tasks[t].result \in {"err", "cooldown", "panic"} =>
                  /\ store = tasks[t].store0
                  /\ cooldown = tasks[t].cooldown0

\* the turns of `log` from the i-th on, each as "[role]: content", separated
\* by blank lines
RECURSIVE JoinedFrom(_, _)
JoinedFrom(log, i) ==
    IF i > Len(log) THEN ""
    ELSE "[" \o log[i].role \o "]: " \o log[i].content
         \o (IF i = Len(log) THEN "" ELSE "\n\n" \o JoinedFrom(log, i + 1))

\* C24: an admitted run has sent one request, of a system entry and one user
\* entry that holds the last 50 turns of the store (all of them when there
\* are fewer), of every role, as "[role]: content" in store order; the
\* request of send_chat_message holds at most 10 history entries.
C24_TranscriptOfFiftyTurns ==
    /\ \A t \in Seq2 :
          (tasks[t].op = "trigger" /\ tasks[t].gate = "open" /\ tasks[t].key0 # "absent"
              /\ tasks[t].fail = "none") =>
              LET h == tasks[t].store0
                  first == IF Len(h) > 50 THEN Len(h) - 49 ELSE 1
              IN  /\ tasks[t].reqs = 1
                  /\ Len(tasks[t].messages) = 2
                  /\ tasks[t].messages[1].role = "system"
                  /\ tasks[t].messages[2].role = "user"
                  /\ tasks[t].messages[2].content =
                        "Analyze this conversation history:\n\n" \o JoinedFrom(h, first)
    /\ \A t \in Sends : Len(tasks[t].messages) - 2 <= 10

\* a run admitted on a store of more than 50 turns
C24_Witness ==
    \E t \in Seq2 :
        /\ tasks[t].op = "trigger" /\ tasks[t].gate = "open" /\ tasks[t].reqs = 1
        /\ Len(tasks[t].store0) > 50

\* C25 as stated: the turns a completed exchange appended (user turn, answer,
\* and its commentary when one is returned) are next to each other in the
\* store, whatever another invocation did meanwhile.
C25_ExchangeContiguous ==
    \A t \in Seq2 :
        (tasks[t].op = "send" /\ tasks[t].pc = "idle" /\ tasks[t].result = "ok") =>
            \E k \in Len(tasks[t].store0)..Len(store) :
                /\ k + 2 <= Len(store)
                /\ store[k + 1] = [role |-> "user", content |-> tasks[t].message,
                                   level |-> tasks[t].level]
                /\ store[k + 2].content = tasks[t].main_response
                /\ store[k + 2].level = tasks[t].level
                /\ store[k + 2].role # "user"
                /\ tasks[t].comments # <<>> =>
                      /\ k + 3 <= Len(store)
                      /\ store[k + 3] = [role |-> "miku", content |-> tasks[t].char_content,
                                         level |-> 0]

\* C26 as stated: whatever number the cooldown file holds, one later than
\* the clock included, trigger_deep_research does not panic, and a blocked
\* call reports a remaining time in 1..21600.
C26_CooldownArithmeticSafe ==
    \A t \in Seq2 :
        tasks[t].op = "trigger" =>
            /\ tasks[t].gate # "panic" /\ tasks[t].result # "panic"
            /\ tasks[t].gate = "blocked" =>
                  0 < tasks[t].remaining /\ tasks[t].remaining <= 21600

\* C27 as stated: a returned commentary is one item, not empty, and equal to
\* the content of the miku turn its exchange stored; a commentary text that is
\* empty or white space only returns no commentary and stores nothing.
C27_CommentaryIsWhatWasStored ==
    \A t \in Seq2 :
        (tasks[t].op = "send" /\ tasks[t].pc = "idle" /\ tasks[t].result = "ok") =>
            LET n == Len(tasks[t].store0) IN
            /\ tasks[t].comments # <<>> =>
                  /\ Len(tasks[t].comments) = 1
                  /\ tasks[t].comments[1] # ""
                  /\ Len(store) = n + 3
                  /\ store[n + 3].role = "miku"
                  /\ store[n + 3].content = tasks[t].comments[1]
            /\ (tasks[t].secondary = "text" /\ tasks[t].char_content \in {"", " "}) =>
                  /\ tasks[t].comments = <<>>
                  /\ Len(store) = n + 2

\* C28 as stated: while the overlay window exists, the tray item reads
\* "Hide Character" exactly when overlay_visible is true and "Show Character"
\* exactly when it is false.
C28_TrayTextAgrees ==
    overlay.window =>
        /\ overlay.toggle_text = "Hide Character" <=> overlay.overlay_visible
        /\ overlay.toggle_text = "Show Character" <=> ~overlay.overlay_visible

\* C29 as stated: what toggle_overlay returned is the value of
\* overlay_visible after the call, with or without an overlay window, and two
\* toggle_overlay calls in a row return opposite values.
C29_ToggleReturnsVisibility ==
    /\ overlay.returned = "true" => overlay.overlay_visible
    /\ overlay.returned = "false" => ~overlay.overlay_visible
    /\ (overlay.returned \in {"true", "false"} /\ overlay.previous \in {"true", "false"}) =>
          overlay.returned # overlay.previous

\* C30 as stated: however the calls of start_device_listening interleave, at
\* most one listener thread is spawned.
C30_OneListener ==
    listening.spawned <= 1

============================================================================
